---- MODULE Spec2Model ----
(***************************************************************************)
(* Model of crates/git_ui/src/project_diff.rs: the ProjectDiff panel, its  *)
(* multi-buffer, the watch channel that announces repository changes and   *)
(* the worker that updates the multi-buffer, plus the Deploy action of the *)
(* workspace.                                                              *)
(*                                                                         *)
(* An Option<T> is modelled as a set with at most one element.             *)
(* A buffer is identified by the number of the file it was opened for; a   *)
(* multi-buffer is a function from buffers to the set of primary ranges of *)
(* the excerpts it holds for that buffer (context lines are not tracked).  *)
(***************************************************************************)
EXTENDS Integers, Sequences, FiniteSets, TLC

\* ------------------------------------------------------------------ bounds
NumFiles == 2      \* files of the worktree, each also a path of the repository
MaxRange == 2      \* distinct diff-hunk ranges a file can have
MaxEvents == 2     \* RepositoriesUpdated events after construction

Buffers == 1..NumFiles
Ranges == 1..MaxRange
\* Repository path 0 lies outside every worktree of the project.
RepoPaths == 0..NumFiles
Panes == {"left", "right"}
MaxItems == 3     \* items a workspace holds
WorktreeId == "worktree"

VARIABLES
    git_state,        \* GitState: [active: BOOLEAN, status: Seq of status entries]
    unstaged_hunks,   \* per buffer, the hunk ranges of its unstaged change set
    multibuffer,      \* ProjectDiff.multibuffer
    update_needed,    \* the watch channel holds a value the receiver has not seen
    pc,               \* worker position: "recv" | "await" | "done"
    tasks,            \* the Vec<Task<Result<DiffBuffer>>> of the current pass
    next_task,        \* index of the task the worker's for loop is at
    events,           \* RepositoriesUpdated events emitted so far
    dirty,            \* history: an event arrived since the last buffers_to_load began
    reg_log,          \* history: buffers registered in the current pass, in order
    removed,          \* history: the buffers the latest buffers_to_load took the excerpts of
    pass_done,        \* history: a pass has run to its end
    replaced,         \* history: the excerpts the pass's latest registration found in its buffer
    items,            \* workspace: Seq of [type, pane]
    active_pane,      \* workspace: the active pane
    active_item,      \* workspace: per pane, the index in items of its active item (0: none)
    splits            \* history: clone_on_split has been used

panel_vars == <<git_state, unstaged_hunks, multibuffer, update_needed, pc, tasks,
                next_task, events, dirty, reg_log, removed, pass_done, replaced>>
workspace_vars == <<items, active_pane, active_item, splits>>
vars == <<panel_vars, workspace_vars>>

\* --------------------------------------------------------- collaborators
\* MultiBuffer::new
EmptyMultiBuffer == [b \in Buffers |-> {}]

\* MultiBuffer::all_buffers: the buffers that have excerpts
all_buffers(mb) == {b \in Buffers : mb[b] # {}}

\* MultiBuffer::clear
clear(mb) == [b \in Buffers |-> {}]

\* MultiBuffer::remove_excerpts_for_buffer
remove_excerpts_for_buffer(mb, buffer) == [mb EXCEPT ![buffer] = {}]

\* MultiBuffer::set_excerpts_for_buffer: the buffer's excerpts become `ranges`
set_excerpts_for_buffer(mb, buffer, ranges) == [mb EXCEPT ![buffer] = ranges]

\* Buffer::file + ProjectPath { worktree_id, path }
file(buffer) == [worktree_id |-> WorktreeId, path |-> buffer]

\* Repository::repo_path_to_project_path: None for a path outside the worktrees
repo_path_to_project_path(repo_path) ==
    IF repo_path \in Buffers
    THEN {[worktree_id |-> WorktreeId, path |-> repo_path]}
    ELSE {}

\* Project::open_buffer: the buffer of a project path
open_buffer(project_path) == project_path.path

\* GitState::active_repository
active_repository(git) == IF git.active THEN {git} ELSE {}

\* ------------------------------------------------------------ ProjectDiff
\* HashMap::remove
map_remove(m, k) == [x \in (DOMAIN m) \ {k} |-> m[x]]

\* lines 133-147: the file-backed buffers of the multi-buffer by project path
loaded_buffers(mb) ==
    [pp \in {file(b) : b \in all_buffers(mb)} |->
        CHOOSE b \in all_buffers(mb) : file(b) = pp]

\* lines 150-177: the loop over repo.status()
RECURSIVE status_loop(_, _, _)
status_loop(entries, loaded, result) ==
    IF entries = <<>>
    THEN [loaded |-> loaded, result |-> result]
    ELSE LET entry == Head(entries)
             pp == repo_path_to_project_path(entry.repo_path)
         IN  IF ~entry.has_changes
             THEN status_loop(Tail(entries), loaded, result)
             ELSE IF pp = {}
             THEN status_loop(Tail(entries), loaded, result)
             ELSE LET project_path == CHOOSE p \in pp : TRUE
                  IN  status_loop(Tail(entries),
                                  map_remove(loaded, project_path),
                                  Append(result, [buffer |-> open_buffer(project_path),
                                                  state |-> "pending"]))

\* lines 178-182: remove the excerpts of every buffer left in loaded_buffers
RECURSIVE remove_all(_, _)
remove_all(mb, buffers) ==
    IF buffers = {}
    THEN mb
    ELSE LET b == CHOOSE x \in buffers : TRUE
         IN  remove_all(remove_excerpts_for_buffer(mb, b), buffers \ {b})

\* buffers_to_load that leaves every loaded buffer in place
buffers_to_load_no_eviction(mb, git) ==
    IF active_repository(git) = {}
    THEN [multibuffer |-> clear(mb), result |-> <<>>]
    ELSE LET repo == CHOOSE r \in active_repository(git) : TRUE
             r == status_loop(repo.status, loaded_buffers(mb), <<>>)
         IN  [multibuffer |-> mb, result |-> r.result]

\* buffers_to_load that does not load a file the multi-buffer already shows
buffers_to_load_skip_loaded(mb, git) ==
    IF active_repository(git) = {}
    THEN [multibuffer |-> clear(mb), result |-> <<>>]
    ELSE LET repo == CHOOSE r \in active_repository(git) : TRUE
             r == status_loop(repo.status, loaded_buffers(mb), <<>>)
         IN  [multibuffer |-> remove_all(mb, {r.loaded[pp] : pp \in DOMAIN r.loaded}),
              result |-> SelectSeq(r.result, LAMBDA t : mb[t.buffer] = {})]

\* buffers_to_load that returns early without clearing when there is no repository
buffers_to_load_no_clear(mb, git) ==
    IF active_repository(git) = {}
    THEN [multibuffer |-> mb, result |-> <<>>]
    ELSE LET repo == CHOOSE r \in active_repository(git) : TRUE
             r == status_loop(repo.status, loaded_buffers(mb), <<>>)
         IN  [multibuffer |-> remove_all(mb, {r.loaded[pp] : pp \in DOMAIN r.loaded}),
              result |-> r.result]

\* ProjectDiff::buffers_to_load: the multi-buffer after the call and the tasks returned
buffers_to_load(mb, git) ==
    IF active_repository(git) = {}
    THEN [multibuffer |-> clear(mb), result |-> <<>>]
    ELSE LET repo == CHOOSE r \in active_repository(git) : TRUE
             r == status_loop(repo.status, loaded_buffers(mb), <<>>)
         IN  [multibuffer |-> remove_all(mb, {r.loaded[pp] : pp \in DOMAIN r.loaded}),
              result |-> r.result]

\* register_buffer that adds the hunk ranges to the excerpts the buffer has
register_buffer_accumulate(mb, buffer, hunks) ==
    [mb EXCEPT ![buffer] = @ \cup hunks]

\* ProjectDiff::register_buffer: `hunks` are the ranges of
\* change_set.diff_hunks_intersecting_range(MIN..MAX) when the call runs
register_buffer(mb, buffer, hunks) ==
    set_excerpts_for_buffer(mb, buffer, hunks)

\* ------------------------------------------------------------- the states
StatusEntry(p, c) == [repo_path |-> p, has_changes |-> c]

\* entry.status.has_changes() of the status entry of repository path p (entries are
\* sorted by path, one per path)
has_changes(git, p) == git.status[p + 1].has_changes

\* postage::watch::channel (line 103): a new receiver has not seen the initial value
watch_channel == TRUE

\* line 109, "Kick off the worker": a write marks the value unseen
kick_off(chan) == TRUE

\* lines 104-107 and 120: the worker task is spawned and kept in the panel; it
\* starts at the top of its loop. A task that is not kept is cancelled.
spawn_worker_dropped == "done"
spawn_worker == "recv"

\* lines 93-101: the handler of RepositoriesUpdated writes to update_needed
git_state_subscription_ignored(needed) == needed
git_state_subscription(needed) == TRUE

\* ProjectDiff::new, lines 71-123: the panel right after construction. The
\* watch channel is created with a value the receiver has not seen, and
\* line 109 writes to it once more.
Init ==
    /\ git_state = [active |-> TRUE,
                    status |-> [i \in 1..(NumFiles + 1) |-> StatusEntry(i - 1, FALSE)]]
    /\ unstaged_hunks = [b \in Buffers |-> {}]
    /\ multibuffer = EmptyMultiBuffer
    /\ update_needed = kick_off(watch_channel)
    /\ pc = spawn_worker
    /\ tasks = <<>>
    /\ next_task = 1
    /\ events = 0
    /\ dirty = FALSE
    /\ reg_log = <<>>
    /\ removed = {}
    /\ pass_done = FALSE
    /\ replaced = {}
    /\ items = <<>>
    /\ active_pane = "left"
    /\ active_item = [p \in Panes |-> 0]
    /\ splits = FALSE

\* --------------------------------------------------------- the environment
\* The repository changes (one status entry, with the unstaged hunks of its
\* file, or the active repository) and GitState emits RepositoriesUpdated,
\* which runs the panel's subscription.
RepositoriesUpdated ==
    /\ events < MaxEvents
    /\ \/ /\ git_state' = [git_state EXCEPT !.active = ~@]
          /\ UNCHANGED unstaged_hunks
       \/ \E p \in RepoPaths, c \in BOOLEAN, h \in SUBSET Ranges :
             /\ (~c \/ p \notin Buffers) => h = {}
             /\ git_state' = [git_state EXCEPT !.status[p + 1].has_changes = c]
             /\ unstaged_hunks' = IF p \in Buffers
                                  THEN [unstaged_hunks EXCEPT ![p] = h]
                                  ELSE unstaged_hunks
    /\ events' = events + 1
    /\ update_needed' = git_state_subscription(update_needed)
    /\ dirty' = TRUE
    /\ UNCHANGED <<multibuffer, pc, tasks, next_task, reg_log, removed, pass_done,
                   replaced>>
    /\ UNCHANGED workspace_vars

\* A load task of the current pass finishes: open_buffer and
\* open_unstaged_changes succeeded, or one of them returned an error.
LoadComplete(i, ok) ==
    /\ pc = "await"
    /\ i \in next_task..Len(tasks)
    /\ tasks[i].state = "pending"
    /\ tasks' = [tasks EXCEPT ![i].state = IF ok THEN "ok" ELSE "err"]
    /\ UNCHANGED <<git_state, unstaged_hunks, multibuffer, update_needed, pc,
                   next_task, events, dirty, reg_log, removed, pass_done, replaced>>
    /\ UNCHANGED workspace_vars

\* --------------------------------------------------------------- the worker
\* The for loop of lines 214-218 moves to its next task, or the pass ends
\* and the worker is back at recv.next().await.
Advance ==
    /\ next_task' = next_task + 1
    /\ pc' = IF next_task = Len(tasks) THEN "recv" ELSE "await"
    /\ pass_done' = (pass_done \/ next_task = Len(tasks))

\* lines 212-213: recv.next() yields and buffers_to_load runs
WorkerPass ==
    /\ pc = "recv"
    /\ update_needed
    /\ LET r == buffers_to_load(multibuffer, git_state)
       IN  /\ multibuffer' = r.multibuffer
           /\ tasks' = r.result
           /\ pc' = IF r.result = <<>> THEN "recv" ELSE "await"
           /\ pass_done' = (pass_done \/ r.result = <<>>)
           /\ removed' = {b \in Buffers : multibuffer[b] # {} /\ r.multibuffer[b] = {}}
    /\ next_task' = 1
    /\ update_needed' = FALSE
    /\ dirty' = FALSE
    /\ reg_log' = <<>>
    /\ replaced' = {}
    /\ UNCHANGED <<git_state, unstaged_hunks, events>>
    /\ UNCHANGED workspace_vars

\* a worker that registers whichever load task has finished
WorkerRegister_unordered ==
    /\ pc = "await"
    /\ \E i \in next_task..Len(tasks) :
          /\ tasks[i].state = "ok"
          /\ LET b == tasks[i].buffer
             IN  /\ multibuffer' = register_buffer(multibuffer, b, unstaged_hunks[b])
                 /\ reg_log' = Append(reg_log, b)
                       /\ replaced' = multibuffer[b]
          /\ tasks' = [tasks EXCEPT ![i] = tasks[next_task], ![next_task] = tasks[i]]
    /\ Advance
    /\ UNCHANGED <<git_state, unstaged_hunks, update_needed, events, dirty, removed>>
    /\ UNCHANGED workspace_vars

\* lines 215-216: the awaited task succeeded and its buffer is registered
WorkerRegister ==
    /\ pc = "await"
    /\ tasks[next_task].state = "ok"
    /\ LET b == tasks[next_task].buffer
       IN  /\ multibuffer' = register_buffer(multibuffer, b, unstaged_hunks[b])
           /\ reg_log' = Append(reg_log, b)
           /\ replaced' = multibuffer[b]
    /\ Advance
    /\ UNCHANGED <<git_state, unstaged_hunks, update_needed, tasks, events, dirty,
                   removed>>
    /\ UNCHANGED workspace_vars

\* a worker that returns the error of a failed load task
WorkerSkip_stop ==
    /\ pc = "await"
    /\ tasks[next_task].state = "err"
    /\ pc' = "done"
    /\ UNCHANGED <<git_state, unstaged_hunks, multibuffer, update_needed, tasks,
                   next_task, events, dirty, reg_log, removed, pass_done, replaced>>
    /\ UNCHANGED workspace_vars

\* line 215: the awaited task failed; log_err drops the error
WorkerSkip ==
    /\ pc = "await"
    /\ tasks[next_task].state = "err"
    /\ Advance
    /\ UNCHANGED <<git_state, unstaged_hunks, multibuffer, update_needed, tasks,
                   events, dirty, reg_log, removed, replaced>>
    /\ UNCHANGED workspace_vars

Next ==
    \/ RepositoriesUpdated
    \/ \E i \in 1..NumFiles, ok \in BOOLEAN : LoadComplete(i, ok)
    \/ WorkerPass
    \/ WorkerRegister
    \/ WorkerSkip

Spec == Init /\ [][Next]_vars

\* a step of the panel's own tasks: the worker's, or a load task's
TaskStep ==
    \/ \E i \in 1..NumFiles, ok \in BOOLEAN : LoadComplete(i, ok)
    \/ WorkerPass
    \/ WorkerRegister
    \/ WorkerSkip

\* The executor does not stop while a task of the panel can take a step.
FairSpec == Spec /\ WF_vars(TaskStep)

\* ------------------------------------------------------------ the workspace
ProjectDiffItems == {i \in 1..Len(items) : items[i].type = "ProjectDiff"}

\* Workspace::item_of_type::<ProjectDiff>: the most recently created one, if any
item_of_type ==
    IF ProjectDiffItems = {}
    THEN {}
    ELSE {CHOOSE i \in ProjectDiffItems : \A j \in ProjectDiffItems : j <= i}

\* Workspace::activate_item
activate_item(i) ==
    /\ active_pane' = items[i].pane
    /\ active_item' = [active_item EXCEPT ![items[i].pane] = i]
    /\ items' = items

\* Workspace::add_item_to_active_pane
add_item_to_active_pane(type) ==
    /\ items' = Append(items, [type |-> type, pane |-> active_pane])
    /\ active_item' = [active_item EXCEPT ![active_pane] = Len(items) + 1]
    /\ active_pane' = active_pane

\* a deploy that never looks for an existing item
deploy_always_new ==
    /\ Len(items) < MaxItems
    /\ add_item_to_active_pane("ProjectDiff")
    /\ UNCHANGED splits
    /\ UNCHANGED panel_vars

\* ProjectDiff::deploy, lines 55-69
deploy ==
    /\ IF item_of_type # {}
       THEN LET existing == CHOOSE i \in item_of_type : TRUE
            IN  activate_item(existing)
       ELSE /\ Len(items) < MaxItems
            /\ add_item_to_active_pane("ProjectDiff")
    /\ UNCHANGED splits
    /\ UNCHANGED panel_vars

\* Item::clone_on_split, lines 296-308: a second panel, which the workspace
\* puts in another pane
clone_on_split(i, q) ==
    /\ i \in ProjectDiffItems
    /\ q # items[i].pane
    /\ Len(items) < MaxItems
    /\ items' = Append(items, [type |-> "ProjectDiff", pane |-> q])
    /\ active_item' = [active_item EXCEPT ![q] = Len(items) + 1]
    /\ active_pane' = q
    /\ splits' = TRUE
    /\ UNCHANGED panel_vars

\* the user opens a file: an editor item in the active pane
open_editor ==
    /\ Len(items) < MaxItems
    /\ add_item_to_active_pane("Editor")
    /\ UNCHANGED splits
    /\ UNCHANGED panel_vars

\* the user focuses a pane
activate_pane(q) ==
    /\ q # active_pane
    /\ active_pane' = q
    /\ UNCHANGED <<items, active_item, splits>>
    /\ UNCHANGED panel_vars

\* the sequence s without its element i
RemoveAt(s, i) == [k \in 1..(Len(s) - 1) |-> IF k < i THEN s[k] ELSE s[k + 1]]

\* the user closes an item: the last item left in its pane becomes the active one
close_item(i) ==
    /\ i \in 1..Len(items)
    /\ items' = RemoveAt(items, i)
    /\ active_item' =
          [q \in Panes |->
              IF active_item[q] = i
              THEN LET left == {k \in 1..Len(items') : items'[k].pane = q}
                   IN  IF left = {} THEN 0 ELSE CHOOSE k \in left : \A m \in left : m <= k
              ELSE IF active_item[q] > i THEN active_item[q] - 1 ELSE active_item[q]]
    /\ UNCHANGED <<active_pane, splits>>
    /\ UNCHANGED panel_vars

WorkspaceNext ==
    \/ deploy
    \/ \E i \in 1..MaxItems, q \in Panes : clone_on_split(i, q)
    \/ open_editor
    \/ \E q \in Panes : activate_pane(q)
    \/ \E i \in 1..MaxItems : close_item(i)

WorkspaceSpec == Init /\ [][WorkspaceNext]_vars

\* ---------------------------------------------------------------- claims
\* the files that have excerpts in the multi-buffer
Displayed == {b \in Buffers : multibuffer[b] # {}}

\* b's project path is the path of a status entry with changes
ChangedPath(b) ==
    \E p \in RepoPaths :
        has_changes(git_state, p) /\ file(b) \in repo_path_to_project_path(p)

\* the changed files of the active repository that have an unstaged hunk
ChangedWithHunks ==
    IF git_state.active
    THEN {b \in Buffers : ChangedPath(b) /\ unstaged_hunks[b] # {}}
    ELSE {}

\* the worker has finished a pass and no notification is waiting for it
WorkerIdle == pc = "recv" /\ ~update_needed

\* a step in which recv.next() yields and buffers_to_load runs
PassStart == update_needed /\ ~update_needed'

\* a step in which register_buffer runs
RegisterStep == Len(reg_log') = Len(reg_log) + 1

\* the position of b's entry in repo.status()
EntryIndex(b) == CHOOSE i \in 1..Len(git_state.status) :
                    file(b) \in repo_path_to_project_path(git_state.status[i].repo_path)

RECURSIVE OkBuffers(_)
OkBuffers(ts) ==
    IF ts = <<>> THEN <<>>
    ELSE IF Head(ts).state = "ok"
         THEN <<Head(ts).buffer>> \o OkBuffers(Tail(ts))
         ELSE OkBuffers(Tail(ts))

\* C1: once the worker has finished its last pass (it is idle and nothing
\* is waiting), the files displayed in the multi-buffer are exactly the
\* changed files of the active repository that map to a project path and
\* have at least one unstaged hunk.
C1_EventualConsistency == WorkerIdle => Displayed = ChangedWithHunks

\* With no failed load task in the latest pass the view of an idle worker is
\* the set of changed files with hunks: a failed load is what breaks it.
ConsistentUnlessLoadFailed ==
    (WorkerIdle /\ \A i \in 1..Len(tasks) : tasks[i].state # "err")
        => Displayed = ChangedWithHunks

\* An idle worker whose view shows a file that has no unstaged hunk.
StaleAfterFailedLoad ==
    WorkerIdle /\ \E b \in Displayed : unstaged_hunks[b] = {}

\* C2: no notification is lost: whenever a RepositoriesUpdated event has
\* arrived, a pass whose buffers_to_load starts after it follows.
C2_NoNotificationLost == dirty ~> ~dirty

\* a second event has arrived while a pass is between buffers_to_load and
\* its last registration
C2_Witness == dirty /\ pc = "await" /\ events = 2

\* C3: buffers_to_load with an active repository removes the excerpts of
\* every displayed buffer whose path is not the path of a status entry with
\* changes, and of no displayed buffer whose path is one.
C3_Eviction ==
    [][(PassStart /\ git_state.active) =>
          \A b \in Displayed :
              IF ChangedPath(b)
              THEN multibuffer'[b] = multibuffer[b]
              ELSE multibuffer'[b] = {}]_vars

\* the latest pass, of an active repository, has taken the excerpts of a
\* buffer whose entry has no changes
C3_Witness ==
    /\ WorkerIdle
    /\ git_state.active
    /\ \E b \in removed : multibuffer[b] = {} /\ ~has_changes(git_state, b)

\* C4: buffers_to_load with an active repository returns exactly one load
\* task for each status entry that has changes and maps to a project path,
\* in status order, whether or not the file is already displayed.
C4_LoadSet ==
    [][(PassStart /\ git_state.active) =>
          /\ {tasks'[i].buffer : i \in 1..Len(tasks')} = {b \in Buffers : ChangedPath(b)}
          /\ Len(tasks') = Cardinality({b \in Buffers : ChangedPath(b)})
          /\ \A i, j \in 1..Len(tasks') :
                i < j => EntryIndex(tasks'[i].buffer) < EntryIndex(tasks'[j].buffer)
          /\ \A i \in 1..Len(tasks') : tasks'[i].state = "pending"]_vars

\* a pass has just begun with a single task, for a file that is displayed,
\* while the entry outside the worktree has changes and gets no task
C4_Witness ==
    /\ pc = "await"
    /\ next_task = 1
    /\ Len(tasks) = 1
    /\ tasks[1].state = "pending"
    /\ multibuffer[tasks[1].buffer] # {}
    /\ has_changes(git_state, 0)

\* C5: register_buffer sets the excerpts of its buffer to the hunk ranges of
\* the unstaged change set, whatever the buffer had before, and leaves the
\* other buffers alone; so the excerpts of a buffer never change but to
\* nothing or to the hunk ranges its change set has at that moment.
C5_RegisterReplaces ==
    /\ [][\A b \in Buffers :
             multibuffer'[b] \in {multibuffer[b], {}, unstaged_hunks[b]}]_vars
    /\ [][RegisterStep =>
             LET b == reg_log'[Len(reg_log')]
             IN  /\ multibuffer'[b] = unstaged_hunks[b]
                 /\ \A o \in Buffers \ {b} : multibuffer'[o] = multibuffer[o]]_vars

\* a registration has replaced excerpts by ranges none of which the buffer had
C5_Witness ==
    /\ reg_log # <<>>
    /\ replaced # {}
    /\ LET b == reg_log[Len(reg_log)]
       IN  multibuffer[b] # {} /\ multibuffer[b] \cap replaced = {}

\* C6: buffers_to_load without an active repository clears the multi-buffer
\* and returns no task: the pass registers nothing and ends with an empty view.
C6_NoActiveRepository ==
    [][(PassStart /\ ~git_state.active) =>
          /\ Displayed' = {}
          /\ tasks' = <<>>
          /\ reg_log' = <<>>
          /\ pc' = "recv"]_vars

\* the latest pass, without an active repository, has cleared a view that
\* showed a buffer
C6_Witness ==
    /\ WorkerIdle
    /\ ~git_state.active
    /\ Displayed = {}
    /\ removed # {}

\* C7: the worker of a new panel runs one pass to its end.
C7_InitialUpdate == <>pass_done

\* the first pass has ended though no event was ever emitted
C7_Witness == pass_done /\ events = 0

\* C8: a failed load task is skipped without a registration, every task of
\* the pass that succeeded is registered, and the worker does not stop.
C8_LoadFailureIsolation ==
    /\ pc # "done"
    /\ reg_log = OkBuffers(SubSeq(tasks, 1, next_task - 1))

\* a pass has ended in which a task failed and a later one was registered
C8_Witness ==
    /\ pc = "recv"
    /\ Len(tasks) = 2
    /\ tasks[1].state = "err"
    /\ tasks[2].state = "ok"
    /\ reg_log = <<tasks[2].buffer>>

\* C9: the results of a pass are registered in status order, and
\* buffers_to_load runs only when every task of the pass before is done with.
C9_PassesSerialized ==
    /\ [](\A i, j \in 1..Len(reg_log) :
             i < j => EntryIndex(reg_log[i]) < EntryIndex(reg_log[j]))
    /\ [](pc = "recv" => next_task > Len(tasks))
    /\ [][PassStart => (pc = "recv" /\ next_task > Len(tasks))]_vars

\* the second task has finished before the first, and the worker still waits
\* for the first
C9_Witness ==
    /\ pc = "await"
    /\ next_task = 1
    /\ Len(tasks) = 2
    /\ tasks[1].state = "pending"
    /\ tasks[2].state = "ok"
    /\ reg_log = <<>>

\* C10: Deploy activates the existing ProjectDiff item and creates none, or
\* creates one in the active pane when there is none; with Deploy alone the
\* workspace holds at most one.
C10_DeployIdempotent ==
    /\ [](~splits => Cardinality(ProjectDiffItems) <= 1)
    /\ [][deploy =>
             IF ProjectDiffItems # {}
             THEN /\ items' = items
                  /\ active_pane' \in {items[i].pane : i \in ProjectDiffItems}
                  /\ active_item'[active_pane'] \in ProjectDiffItems
             ELSE /\ Len(items') = Len(items) + 1
                  /\ items'[Len(items')] = [type |-> "ProjectDiff", pane |-> active_pane]
                  /\ active_item'[active_pane] = Len(items')]_vars

\* Deploy has brought back the one ProjectDiff item of a pane in which an
\* editor was opened after it
C10_Witness ==
    /\ ~splits
    /\ Len(items) = 2
    /\ items[1] = [type |-> "ProjectDiff", pane |-> active_pane]
    /\ items[2] = [type |-> "Editor", pane |-> active_pane]
    /\ active_item[active_pane] = 1

====
